---- MODULE Spec2Model ----
(***************************************************************************)
(* Model of the phishing-detection service in src/app.py: the startup load *)
(* of the classifier, the /api/analyze handler (validation, text           *)
(* normalisation, classifier path, keyword fallback, warning-sign rules)   *)
(* and the /api/health handler.                                            *)
(*                                                                         *)
(* Strings are sequences of Unicode code points, so that lower-casing,     *)
(* substring search and the regular expressions of the source are computed *)
(* character by character.  The Arabic result strings of the source are    *)
(* named by the spec's enumeration values; each definition's comment gives *)
(* the source literal.                                                     *)
(***************************************************************************)
EXTENDS Integers, Sequences, FiniteSets, TLC

VARIABLES
    model,       \* app.py:13 global `model`: None or the unpickled classifier
    pc,          \* "startup" | "idle" | "responded"; "norm" under SpecNorm
    data,        \* app.py:44 the JSON body of the request being answered
    response,    \* what the handler returned
    trace,       \* which components the handler ran for this request
    loadOutcome, \* history: how the load of app.py:14-22 ended
    everFailed,  \* history: classifier inference raised on some request
    text,        \* SpecNorm: the string given to preprocess_text
    out          \* SpecNorm: the results of applying it once, twice

vars == <<model, pc, data, response, trace, loadOutcome, everFailed, text, out>>

(***************************************************************************)
(* Bounds of the model.                                                    *)
(***************************************************************************)
\* how many texts of the vocabulary requests are drawn from
NumTexts == 15
\* probabilities are multiples of 1/ProbDen
ProbDen == 20
\* longest input of the normaliser under SpecNorm
MaxLen == 5

\* app.py:13: no classifier
None == "None"

(***************************************************************************)
(* Strings.                                                                *)
(***************************************************************************)
Min(S) == CHOOSE x \in S : \A y \in S : x <= y
Max(S) == CHOOSE x \in S : \A y \in S : x >= y

\* str.isspace() / regex \s, \S of a str pattern: Unicode whitespace
IsSpace(c) ==
    c \in {9, 10, 11, 12, 13, 28, 29, 30, 31, 32, 133, 160, 5760, 8232, 8233,
           8239, 8287, 12288} \/ c \in 8192..8202

\* regex class [a-zA-Z]
IsAsciiLetter(c) == c \in 65..90 \/ c \in 97..122

\* str.lower() on one character: the ASCII capitals map to their small
\* letters; digits, punctuation, whitespace and the Arabic letters are
\* uncased and map to themselves (the characters the model draws from)
LowerChar(c) == IF c \in 65..90 THEN c + 32 ELSE c

\* str.lower()
Lower(s) == [i \in 1..Len(s) |-> LowerChar(s[i])]

\* p occurs in s at position i
OccursAt(s, i, p) ==
    /\ i >= 1
    /\ i + Len(p) - 1 <= Len(s)
    /\ SubSeq(s, i, i + Len(p) - 1) = p

\* Python `p in s`
Contains(s, p) == \E i \in 1..(Len(s) - Len(p) + 1) : OccursAt(s, i, p)

\* last index of the maximal run of non-whitespace that starts at i
RunEnd(s, i) == Max({j \in i..Len(s) : \A k \in i..j : ~IsSpace(s[k])})

\* 'http' (app.py:28, 93)
s_http == <<104, 116, 116, 112>>

\* 'https' (app.py:28)
s_https == <<104, 116, 116, 112, 115>>

\* 'www' (app.py:28)
s_www == <<119, 119, 119>>

\* '://' (app.py:93)
s_colon_slashes == <<58, 47, 47>>

\* 'http://'
s_http_scheme == <<104, 116, 116, 112, 58, 47, 47>>

\* 'https://'
s_https_scheme == <<104, 116, 116, 112, 115, 58, 47, 47>>

\* 'verify' (app.py:85)
s_verify == <<118, 101, 114, 105, 102, 121>>

\* 'confirm' (app.py:85)
s_confirm == <<99, 111, 110, 102, 105, 114, 109>>

\* Arabic 'confirmation', U+062A U+0623 U+0643 U+064A U+062F (app.py:85)
s_ar_confirmation == <<1578, 1571, 1603, 1610, 1583>>

\* Arabic 'update', U+062A U+062D U+062F U+064A U+062B (app.py:85)
s_ar_update == <<1578, 1581, 1583, 1610, 1579>>

\* 'urgent' (app.py:87)
s_urgent == <<117, 114, 103, 101, 110, 116>>

\* 'immediately' (app.py:87)
s_immediately == <<105, 109, 109, 101, 100, 105, 97, 116, 101, 108, 121>>

\* Arabic 'urgent', U+0639 U+0627 U+062C U+0644 (app.py:87)
s_ar_urgent == <<1593, 1575, 1580, 1604>>

\* Arabic 'immediate', U+0641 U+0648 U+0631 U+064A (app.py:87)
s_ar_immediate == <<1601, 1608, 1585, 1610>>

\* 'click' (app.py:89)
s_click == <<99, 108, 105, 99, 107>>

\* 'here' (app.py:89)
s_here == <<104, 101, 114, 101>>

\* 'link' (app.py:89)
s_link == <<108, 105, 110, 107>>

\* Arabic 'click here', two words and a space (app.py:89)
s_ar_click_here == <<1575, 1590, 1594, 1591, 32, 1607, 1606, 1575>>

\* 'password' (app.py:91)
s_password == <<112, 97, 115, 115, 119, 111, 114, 100>>

\* Arabic 'password', first phrase (app.py:91)
s_ar_password1 == <<1603, 1604, 1605, 1577, 32, 1575, 1604, 1605, 1585, 1608,
    1585>>

\* Arabic 'password', second phrase (app.py:91)
s_ar_password2 == <<1603, 1604, 1605, 1577, 32, 1575, 1604, 1587, 1585>>

\* 'account' (app.py:95)
s_account == <<97, 99, 99, 111, 117, 110, 116>>

\* Arabic 'account', U+062D U+0633 U+0627 U+0628 (app.py:95)
s_ar_account == <<1581, 1587, 1575, 1576>>

\* 'prize' (app.py:97)
s_prize == <<112, 114, 105, 122, 101>>

\* 'winner' (app.py:97)
s_winner == <<119, 105, 110, 110, 101, 114>>

\* Arabic 'prize', U+062C U+0627 U+0626 U+0632 U+0629 (app.py:97)
s_ar_prize == <<1580, 1575, 1574, 1586, 1577>>

\* app.py:124-128, in list order
phishing_keywords == <<
    \* 'verify account'
    <<118, 101, 114, 105, 102, 121, 32, 97, 99, 99, 111, 117, 110, 116>>,
    \* 'suspended account'
    <<115, 117, 115, 112, 101, 110, 100, 101, 100, 32, 97, 99, 99, 111, 117, 110, 116>>,
    \* 'click here immediately'
    <<99, 108, 105, 99, 107, 32, 104, 101, 114, 101, 32, 105, 109, 109, 101, 100, 105, 97, 116, 101, 108, 121>>,
    \* 'confirm your password'
    <<99, 111, 110, 102, 105, 114, 109, 32, 121, 111, 117, 114, 32, 112, 97, 115, 115, 119, 111, 114, 100>>,
    \* 'update payment'
    <<117, 112, 100, 97, 116, 101, 32, 112, 97, 121, 109, 101, 110, 116>>,
    \* 'urgent action'
    <<117, 114, 103, 101, 110, 116, 32, 97, 99, 116, 105, 111, 110>>,
    \* 'verify your identity'
    <<118, 101, 114, 105, 102, 121, 32, 121, 111, 117, 114, 32, 105, 100, 101, 110, 116, 105, 116, 121>>,
    \* 'unusual activity'
    <<117, 110, 117, 115, 117, 97, 108, 32, 97, 99, 116, 105, 118, 105, 116, 121>>,
    \* 'limited time'
    <<108, 105, 109, 105, 116, 101, 100, 32, 116, 105, 109, 101>>
>>
(***************************************************************************)
(* Text Normalizer: preprocess_text, app.py:25-33.                         *)
(***************************************************************************)
\* the literal p at i, followed by at least one non-whitespace character:
\* one alternative  p\S+  of the pattern of app.py:28
LiteralThenNonSpace(s, i, p) ==
    /\ OccursAt(s, i, p)
    /\ i + Len(p) <= Len(s)
    /\ ~IsSpace(s[i + Len(p)])

\* r'http\S+|www\S+|https\S+' matches at i.  Every alternative is a literal
\* of non-whitespace characters followed by a greedy \S+, so whichever
\* alternative matches, the match runs to the end of the run of
\* non-whitespace that holds i.
UrlMatchAt(s, i) ==
    \/ LiteralThenNonSpace(s, i, s_http)
    \/ LiteralThenNonSpace(s, i, s_www)
    \/ LiteralThenNonSpace(s, i, s_https)

\* 1, 2, ..., Len(s)
Indices(s) == [i \in 1..Len(s) |-> i]

\* s without the characters at the positions in cut
Without(s, cut) ==
    LET kept == SelectSeq(Indices(s), LAMBDA i : i \notin cut)
    IN  [j \in 1..Len(kept) |-> s[kept[j]]]

\* re.sub(pattern, '', s) removes the leftmost match, then the leftmost
\* match after it, and so on.  For the three patterns of app.py:28-30 a match
\* that starts inside another one ends where that one ends, so the
\* characters removed are those of the matches found from every position.

\* app.py:28  re.sub(r'http\S+|www\S+|https\S+', '', text)
SubUrls(s) ==
    Without(s, UNION {m..RunEnd(s, m) :
                         m \in {m \in 1..Len(s) : UrlMatchAt(s, m)}})

\* r'\S+@\S+' matches at i: from i on there is no whitespace up to an '@'
\* (64) and the character after it.  Both \S+ are greedy, so the match runs
\* to the end of the run of non-whitespace.
EmailMatchAt(s, i) ==
    \E j \in (i + 1)..(Len(s) - 1) :
        /\ s[j] = 64
        /\ \A k \in i..(j + 1) : ~IsSpace(s[k])

\* app.py:29  re.sub(r'\S+@\S+', '', text)
SubEmails(s) ==
    Without(s, UNION {m..RunEnd(s, m) :
                         m \in {m \in 1..Len(s) : EmailMatchAt(s, m)}})

\* r'<.*?>' matched at the '<' (60) at i: the index of the '>' (62) that
\* closes it, 0 if there is none.  '.' does not match a newline (10), and
\* the lazy .*? stops at the first '>'.
TagEnd(s, i) ==
    LET closes == {j \in (i + 1)..Len(s) :
                      /\ s[j] = 62
                      /\ \A k \in (i + 1)..(j - 1) : s[k] # 10}
    IN  IF closes = {} THEN 0 ELSE Min(closes)

\* app.py:30  re.sub(r'<.*?>', '', text)
SubTags(s) ==
    Without(s, UNION {m..TagEnd(s, m) :
                         m \in {m \in 1..Len(s) : s[m] = 60 /\ TagEnd(s, m) # 0}})

\* app.py:31  re.sub(r'[^a-zA-Z\s]', '', text)
SubNonLetters(s) == SelectSeq(s, LAMBDA c : IsAsciiLetter(c) \/ IsSpace(c))

\* app.py:32  ' '.join(text.split()): the words of s, with one space (32)
\* between two of them
JoinSplit(s) ==
    LET kept == SelectSeq(Indices(s), LAMBDA i :
                    \/ ~IsSpace(s[i])
                    \/ /\ i < Len(s)
                       /\ ~IsSpace(s[i + 1])
                       /\ \E k \in 1..(i - 1) : ~IsSpace(s[k]))
    IN  [j \in 1..Len(kept) |->
            IF IsSpace(s[kept[j]]) THEN 32 ELSE s[kept[j]]]

\* app.py:25-33
preprocess_text(s) ==
    JoinSplit(SubNonLetters(SubTags(SubEmails(SubUrls(Lower(s))))))

(***************************************************************************)
(* Result values.  The source's strings are Arabic; each is named here by  *)
(* the spec's enumeration value or by what it says.                        *)
(***************************************************************************)
\* app.py:73, 75 (and 134), 77 (and 134), 79 (and 134): the four labels
VeryHigh == "very-high"
High == "high"
Medium == "medium"
Low == "low"

\* app.py:115 'ML Model (Naive Bayes)', app.py:144 'Keyword-based (Fallback)'
MlModel == "ml-model"
KeywordFallbackUsed == "keyword-fallback"

\* app.py:86, 88, 90, 92, 94, 96, 98: the seven rule messages
MsgVerification == "requests verification of personal data"
MsgUrgency == "uses urgent, pressuring language"
MsgClickLink == "asks to click suspicious links"
MsgCredential == "requests sensitive information"
MsgExternalLink == "contains external links"
MsgAccount == "concerns account information"
MsgPrize == "promises prizes or gains"
\* app.py:101
MsgPlaceholder == "no clear warning signs detected"
\* app.py:136
MsgKeywordAnalysis == "simple keyword analysis"

(***************************************************************************)
(* Warning-Sign Extractor, app.py:82-101.                                  *)
(***************************************************************************)
\* app.py:89  re.search(r'click\s+(here|link)', text_lower)
ClickSearch(s) ==
    \E i \in 1..Len(s) :
        /\ OccursAt(s, i, s_click)
        /\ \E n \in 1..(Len(s) - (i + Len(s_click) - 1)) :
              /\ \A k \in 1..n : IsSpace(s[i + Len(s_click) - 1 + k])
              /\ \/ OccursAt(s, i + Len(s_click) + n, s_here)
                 \/ OccursAt(s, i + Len(s_click) + n, s_link)

\* app.py:93  re.search(r'http[s]?://', full_email)
SchemeSearch(s) ==
    \E i \in 1..Len(s) :
        /\ OccursAt(s, i, s_http)
        /\ \/ OccursAt(s, i + Len(s_http), s_colon_slashes)
           \/ /\ OccursAt(s, i, s_https)
              /\ OccursAt(s, i + Len(s_https), s_colon_slashes)

\* app.py:85-98: the condition of each `if`, in order
RuleMatches(k, full_email, text_lower) ==
    CASE k = 1 -> \/ Contains(text_lower, s_verify)
                  \/ Contains(text_lower, s_confirm)
                  \/ Contains(full_email, s_ar_confirmation)
                  \/ Contains(full_email, s_ar_update)
      [] k = 2 -> \/ Contains(text_lower, s_urgent)
                  \/ Contains(text_lower, s_immediately)
                  \/ Contains(full_email, s_ar_urgent)
                  \/ Contains(full_email, s_ar_immediate)
      [] k = 3 -> \/ ClickSearch(text_lower)
                  \/ Contains(full_email, s_ar_click_here)
      [] k = 4 -> \/ Contains(text_lower, s_password)
                  \/ Contains(full_email, s_ar_password1)
                  \/ Contains(full_email, s_ar_password2)
      [] k = 5 -> SchemeSearch(full_email)
      [] k = 6 -> \/ Contains(text_lower, s_account)
                  \/ Contains(full_email, s_ar_account)
      [] k = 7 -> \/ Contains(text_lower, s_prize)
                  \/ Contains(text_lower, s_winner)
                  \/ Contains(full_email, s_ar_prize)

\* app.py:86-98: the message each `if` appends, in order
RuleMessages ==
    <<MsgVerification, MsgUrgency, MsgClickLink, MsgCredential,
      MsgExternalLink, MsgAccount, MsgPrize>>

\* each message put in front of the list instead of at its end
RECURSIVE AppendSignsPrepending(_, _, _, _)
AppendSignsPrepending(k, signs, full_email, text_lower) ==
    IF k > Len(RuleMessages) THEN signs
    ELSE AppendSignsPrepending(k + 1,
                               IF RuleMatches(k, full_email, text_lower)
                               THEN <<RuleMessages[k]>> \o signs
                               ELSE signs,
                               full_email, text_lower)

\* app.py:82-98: warning_signs after the `if`s k..7, starting from `signs`
RECURSIVE AppendSigns(_, _, _, _)
AppendSigns(k, signs, full_email, text_lower) ==
    IF k > Len(RuleMessages) THEN signs
    ELSE AppendSigns(k + 1,
                     IF RuleMatches(k, full_email, text_lower)
                     THEN Append(signs, RuleMessages[k])
                     ELSE signs,
                     full_email, text_lower)

\* the rules without the placeholder of app.py:100-101
ExtractWithoutPlaceholder(full_email) ==
    AppendSigns(1, <<>>, full_email, Lower(full_email))

\* app.py:82-101
ExtractWarningSigns(full_email) ==
    LET text_lower == Lower(full_email)
        warning_signs == AppendSigns(1, <<>>, full_email, text_lower)
    IN  IF warning_signs = <<>> THEN <<MsgPlaceholder>> ELSE warning_signs

(***************************************************************************)
(* Classifier path, app.py:65-116.                                         *)
(***************************************************************************)
\* a probability n / ProbDen compared with the literal num / den
AtLeast(n, num, den) == n * den >= num * ProbDen

\* the thresholds with > for >=
ConfidenceBandStrict(confidence_score) ==
    IF confidence_score * 10 > 9 * ProbDen THEN VeryHigh
    ELSE IF confidence_score * 4 > 3 * ProbDen THEN High
    ELSE IF confidence_score * 5 > 3 * ProbDen THEN Medium
    ELSE Low

\* app.py:72-79
ConfidenceBand(confidence_score) ==
    IF AtLeast(confidence_score, 9, 10) THEN VeryHigh
    ELSE IF AtLeast(confidence_score, 3, 4) THEN High
    ELSE IF AtLeast(confidence_score, 3, 5) THEN Medium
    ELSE Low

\* f"{confidence_score:.1%}" (app.py:105, 107, 114): the score as tenths of
\* a percent, rounded to the nearest
FormatPercent(n) == (2000 * n + ProbDen) \div (2 * ProbDen)

\* the two templates the wrong way round
MlReasonSwapped(is_phishing, confidence_score) ==
    [template |-> IF is_phishing THEN "ml-safe" ELSE "ml-phishing",
     value |-> FormatPercent(confidence_score)]

\* app.py:104-107
MlReason(is_phishing, confidence_score) ==
    [template |-> IF is_phishing THEN "ml-phishing" ELSE "ml-safe",
     value |-> FormatPercent(confidence_score)]

\* app.py:68-116, once predict and predict_proba have returned
MlResult(full_email, prediction, proba) ==
    LET is_phishing == (prediction = 1)
        confidence_score == Max({proba[i] : i \in DOMAIN proba})
    IN  [kind |-> "result",
         status |-> 200,
         is_phishing |-> is_phishing,
         confidence |-> ConfidenceBand(confidence_score),
         reason |-> MlReason(is_phishing, confidence_score),
         warning_signs |-> ExtractWarningSigns(full_email),
         ml_confidence |-> FormatPercent(confidence_score),
         model_used |-> MlModel]

(***************************************************************************)
(* Keyword Heuristic, app.py:123-145.                                      *)
(***************************************************************************)
\* app.py:131
phishing_score(text_lower) ==
    Cardinality({k \in DOMAIN phishing_keywords :
                    Contains(text_lower, phishing_keywords[k])})

\* > 2 for >= 2
KeywordVerdictStrict(score) == score > 2

\* app.py:133
KeywordVerdict(score) == score >= 2

\* app.py:134
KeywordBand(score) ==
    IF score >= 3 THEN High ELSE IF score >= 1 THEN Medium ELSE Low

\* app.py:137
KeywordReason(is_phishing, score) ==
    IF is_phishing THEN [template |-> "kw-count", value |-> score]
    ELSE [template |-> "kw-none", value |-> 0]

\* the fallback running the rules as the classifier path does
FallbackSignsExtracted(full_email) == ExtractWarningSigns(full_email)

\* app.py:136
FallbackSigns(full_email) == <<MsgKeywordAnalysis>>

\* app.py:123-145
KeywordFallback(full_email) ==
    LET text_lower == Lower(full_email)
        score == phishing_score(text_lower)
        is_phishing == KeywordVerdict(score)
    IN  [kind |-> "result",
         status |-> 200,
         is_phishing |-> is_phishing,
         confidence |-> KeywordBand(score),
         reason |-> KeywordReason(is_phishing, score),
         warning_signs |-> FallbackSigns(full_email),
         model_used |-> KeywordFallbackUsed]

(***************************************************************************)
(* Requests and classifier behaviour: the inputs of the handler.           *)
(***************************************************************************)
\* the texts a subject or a body is drawn from
Vocabulary == <<
    \* 1: 'verify account'
    <<118, 101, 114, 105, 102, 121, 32, 97, 99, 99, 111, 117, 110, 116>>,
    \* 2: 'URGENT ACTION'
    <<85, 82, 71, 69, 78, 84, 32, 65, 67, 84, 73, 79, 78>>,
    \* 3: 'click here immediately'
    <<99, 108, 105, 99, 107, 32, 104, 101, 114, 101, 32, 105, 109, 109, 101,
      100, 105, 97, 116, 101, 108, 121>>,
    \* 4: 'unusual activity, limited time, Limited Time'
    <<117, 110, 117, 115, 117, 97, 108, 32, 97, 99, 116, 105, 118, 105, 116,
      121, 44, 32, 108, 105, 109, 105, 116, 101, 100, 32, 116, 105, 109, 101,
      44, 32, 76, 105, 109, 105, 116, 101, 100, 32, 84, 105, 109, 101>>,
    \* 5: 'confirm your password'
    <<99, 111, 110, 102, 105, 114, 109, 32, 121, 111, 117, 114, 32, 112, 97,
      115, 115, 119, 111, 114, 100>>,
    \* 6: 'see http://x.co now'
    <<115, 101, 101, 32, 104, 116, 116, 112, 58, 47, 47, 120, 46, 99, 111,
      32, 110, 111, 119>>,
    \* 7: 'click'
    <<99, 108, 105, 99, 107>>,
    \* 8: 'link'
    <<108, 105, 110, 107>>,
    \* 9: 'Winner! HTTP://y'
    <<87, 105, 110, 110, 101, 114, 33, 32, 72, 84, 84, 80, 58, 47, 47, 121>>,
    \* 10: the Arabic word for 'account'
    <<1581, 1587, 1575, 1576>>,
    \* 11: 'verify'
    <<118, 101, 114, 105, 102, 121>>,
    \* 12: 'account'
    <<97, 99, 99, 111, 117, 110, 116>>,
    \* 13: ' ' (one space)
    <<32>>,
    \* 14: 'hi <b>you</b> a@b.c'
    <<104, 105, 32, 60, 98, 62, 121, 111, 117, 60, 47, 98, 62, 32, 97, 64,
      98, 46, 99>>,
    \* 15: 'suspended account update payment verify your identity'
    <<115, 117, 115, 112, 101, 110, 100, 101, 100, 32, 97, 99, 99, 111, 117,
      110, 116, 32, 117, 112, 100, 97, 116, 101, 32, 112, 97, 121, 109, 101,
      110, 116, 32, 118, 101, 114, 105, 102, 121, 32, 121, 111, 117, 114, 32,
      105, 100, 101, 110, 116, 105, 116, 121>>,
    \* 16: the Arabic word for 'urgent', then ' prize'
    <<1593, 1575, 1580, 1604, 32, 112, 114, 105, 122, 101>>
>>

\* the first NumTexts of them
Texts == {Vocabulary[i] : i \in (1..NumTexts) \cap DOMAIN Vocabulary}

\* A JSON body as request.get_json() returns it (app.py:44): json is FALSE
\* for None; otherwise a dict with the keys `keys`, whose 'subject' and
\* 'body' values are strings ('' for a key the dict does not hold).
NoJson == [json |-> FALSE, keys |-> {}, subject |-> <<>>, body |-> <<>>]

Dicts(subject, body) ==
    {[json |-> TRUE, keys |-> ks, subject |-> subject, body |-> body] :
        ks \in {ks \in SUBSET {"subject", "body", "other"} :
                   /\ subject # <<>> => "subject" \in ks
                   /\ body # <<>> => "body" \in ks
                   /\ "other" \in ks => ks = {"other"}}}

\* subject and body are each missing, empty or one of the texts
Requests ==
    {NoJson} \cup
    UNION {Dicts(subject, body) :
              subject \in {<<>>} \cup Texts, body \in {<<>>} \cup Texts}

\* What the classifier does when called for a request: predict raises, or
\* returns a class and predict_proba raises, or both return.  proba holds
\* the per-class probabilities as numerators over ProbDen.
NotCalled == [raised |-> "not-called", prediction |-> 0, proba |-> <<>>]

ClassifierOutcomes ==
    {[raised |-> "predict", prediction |-> 0, proba |-> <<>>]}
    \cup {[raised |-> "predict_proba", prediction |-> c, proba |-> <<>>] :
             c \in 0..1}
    \cup {[raised |-> "none", prediction |-> c, proba |-> <<ProbDen - p, p>>] :
             c \in 0..1, p \in 0..ProbDen}

\* no classifier, no behaviour to draw
ClassifierOutcomesFor(m) ==
    IF m = None THEN {NotCalled} ELSE ClassifierOutcomes

(***************************************************************************)
(* analyze_email, app.py:41-149.                                           *)
(***************************************************************************)
\* no component has run
NoTrace ==
    [normalizer |-> FALSE, classifier |-> NotCalled, classifier_input |-> <<>>,
     extractor |-> FALSE, heuristic |-> FALSE]

\* app.py:47 and app.py:53: the two 400 responses
ErrorResponse(error) == [kind |-> "error", status |-> 400, error |-> error]

\* app.py:46: `not data`
Falsy(d) == ~d.json \/ d.keys = {}

\* app.py:49-50: data.get(key, '')
Get(d, key) ==
    IF key \in d.keys THEN (IF key = "subject" THEN d.subject ELSE d.body)
    ELSE <<>>

\* `not subject or not body`
EmptyInputEither(subject, body) == subject = <<>> \/ body = <<>>

\* app.py:52: `not subject and not body`
EmptyInput(subject, body) == subject = <<>> /\ body = <<>>

\* app.py:56: f"{subject} {body}"
FullEmail(subject, body) == subject \o <<32>> \o body

\* app.py:62-121: the classifier is used when it is loaded, and its result
\* is returned unless predict or predict_proba raised
UsesClassifier(m) == m # None

ClassifierAnswers(m, c) == UsesClassifier(m) /\ c.raised = "none"

\* the except clause of app.py:118 let the error through to the handler of
\* app.py:147-149
PropagateInferenceError(full_email) ==
    [kind |-> "error", status |-> 500, error |-> "analysis-failed"]

\* app.py:118-121: the except clause logs and passes, and control reaches
\* the fallback of app.py:123-145
RecoverFromInferenceError(full_email) == KeywordFallback(full_email)

\* app.py:41-145: the response to JSON body d, with classifier m behaving as c,
\* and the components that ran
analyze_email(m, d, c) ==
    IF Falsy(d)
    THEN [response |-> ErrorResponse("no-data"), trace |-> NoTrace]
    ELSE
    LET subject == Get(d, "subject")
        body == Get(d, "body")
    IN  IF EmptyInput(subject, body)
        THEN [response |-> ErrorResponse("empty-input"), trace |-> NoTrace]
        ELSE
        LET full_email == FullEmail(subject, body)
            processed_email == preprocess_text(full_email)
        IN  IF ClassifierAnswers(m, c)
            THEN [response |-> MlResult(full_email, c.prediction, c.proba),
                  trace |-> [normalizer |-> TRUE,
                             classifier |-> c,
                             classifier_input |-> processed_email,
                             extractor |-> TRUE,
                             heuristic |-> FALSE]]
            ELSE [response |->
                      IF UsesClassifier(m)
                      THEN RecoverFromInferenceError(full_email)
                      ELSE KeywordFallback(full_email),
                  trace |-> [normalizer |-> TRUE,
                             classifier |->
                                 IF UsesClassifier(m) THEN c ELSE NotCalled,
                             classifier_input |->
                                 IF UsesClassifier(m) THEN processed_email
                                 ELSE <<>>,
                             extractor |-> FALSE,
                             heuristic |-> TRUE]]

\* app.py:151-157
health_check(m) ==
    [kind |-> "health", status |-> 200, running |-> TRUE,
     model_loaded |-> (m # None)]

(***************************************************************************)
(* The process.                                                            *)
(***************************************************************************)
NoResponse == [kind |-> "none"]

Init ==
    /\ model = None
    /\ pc = "startup"
    /\ data = NoJson
    /\ response = NoResponse
    /\ trace = NoTrace
    /\ loadOutcome = "pending"
    /\ everFailed = FALSE
    /\ text = <<>>
    /\ out = <<>>

\* app.py:13-22: the pickle is loaded, or is not there, or does not load
LoadModel ==
    /\ pc = "startup"
    /\ \E outcome \in {"loaded", "FileNotFoundError", "Exception"} :
          /\ model' = IF outcome = "loaded" THEN "classifier" ELSE None
          /\ loadOutcome' = outcome
    /\ pc' = "idle"
    /\ UNCHANGED <<data, response, trace, everFailed, text, out>>

\* a handler that gives the classifier up once its inference has raised
AnalyzeRequestDisablingModel ==
    /\ pc = "idle"
    /\ \E d \in Requests, c \in ClassifierOutcomesFor(model) :
          \E r \in {analyze_email(model, d, c)} :
              /\ data' = d
              /\ response' = r.response
              /\ trace' = r.trace
              /\ everFailed' =
                    (everFailed \/ r.trace.classifier.raised
                                      \in {"predict", "predict_proba"})
              /\ model' = IF r.trace.classifier.raised
                                \in {"predict", "predict_proba"}
                          THEN None ELSE model
    /\ pc' = "responded"
    /\ UNCHANGED <<loadOutcome, text, out>>

\* app.py:40-149: one POST /api/analyze, from the request to the response
AnalyzeRequest ==
    /\ pc = "idle"
    /\ \E d \in Requests, c \in ClassifierOutcomesFor(model) :
          \E r \in {analyze_email(model, d, c)} :
              /\ data' = d
              /\ response' = r.response
              /\ trace' = r.trace
              /\ everFailed' =
                    (everFailed \/ r.trace.classifier.raised
                                      \in {"predict", "predict_proba"})
    /\ pc' = "responded"
    /\ UNCHANGED <<model, loadOutcome, text, out>>

\* app.py:151-157: one GET /api/health
HealthRequest ==
    /\ pc = "idle"
    /\ data' = NoJson
    /\ response' = health_check(model)
    /\ trace' = NoTrace
    /\ pc' = "responded"
    /\ UNCHANGED <<model, loadOutcome, everFailed, text, out>>

\* the response has been sent: nothing of the request is kept
Return ==
    /\ pc = "responded"
    /\ pc' = "idle"
    /\ data' = NoJson
    /\ response' = NoResponse
    /\ trace' = NoTrace
    /\ UNCHANGED <<model, loadOutcome, everFailed, text, out>>

Next == LoadModel \/ AnalyzeRequest \/ HealthRequest \/ Return

Spec == Init /\ [][Next]_vars

(***************************************************************************)
(* preprocess_text on its own: every string of at most MaxLen characters   *)
(* over NormAlphabet, normalised and normalised again.                     *)
(***************************************************************************)
\* 'w', 'a', 'W', '.', '@', '<', '>', ' ', newline
NormAlphabet == {119, 97, 87, 46, 64, 60, 62, 32, 10}

NormInputs == UNION {[1..n -> NormAlphabet] : n \in 0..MaxLen}

InitNorm ==
    /\ model = None
    /\ pc = "norm"
    /\ data = NoJson
    /\ response = NoResponse
    /\ trace = NoTrace
    /\ loadOutcome = "pending"
    /\ everFailed = FALSE
    /\ text \in NormInputs
    /\ out = <<>>

\* preprocess_text applied to the input, then to its own result
Normalize ==
    /\ pc = "norm"
    /\ Len(out) < 2
    /\ out' = Append(out, preprocess_text(IF out = <<>> THEN text
                                          ELSE out[Len(out)]))
    /\ UNCHANGED <<model, pc, data, response, trace, loadOutcome, everFailed,
                   text>>

NextNorm == Normalize

SpecNorm == InitNorm /\ [][NextNorm]_vars

(***************************************************************************)
(* Properties.  They read the request as the caller sent it (data), what   *)
(* the classifier did (trace.classifier) and the response.                 *)
(***************************************************************************)
\* an /api/analyze request has been answered
Answered == pc = "responded" /\ response.kind # "health"

\* ... with an AnalysisResult
IsResult == pc = "responded" /\ response.kind = "result"

\* the request holds a non-empty subject (body)
HasText(key) ==
    /\ data.json
    /\ key \in data.keys
    /\ (IF key = "subject" THEN data.subject ELSE data.body) # <<>>

FieldText(key) ==
    IF HasText(key)
    THEN (IF key = "subject" THEN data.subject ELSE data.body)
    ELSE <<>>

ValidRequest == HasText("subject") \/ HasText("body")

\* subject, a space, body: the raw combined text
CombinedText == FieldText("subject") \o <<32>> \o FieldText("body")

InferenceRaised == trace.classifier.raised \in {"predict", "predict_proba"}

OnClassifierPath == IsResult /\ response.model_used = MlModel

OnFallbackPath == IsResult /\ response.model_used = KeywordFallbackUsed

\* w, a lower-case word, occurs in s at i whatever the case of s
MatchesNoCaseAt(s, i, w) ==
    /\ i >= 1
    /\ i + Len(w) - 1 <= Len(s)
    /\ \A j \in 1..Len(w) : LowerChar(s[i + j - 1]) = w[j]

\* ... occurs in s
MatchesNoCase(s, w) == \E i \in 1..Len(s) : MatchesNoCaseAt(s, i, w)

\* C1: a valid request handled while a classifier is loaded, whose
\* inference (predict or predict_proba) raises, is answered with a normal
\* AnalysisResult, model_used = keyword-fallback, computed by the Keyword
\* Heuristic; the error is not passed on as a failure response.
C1_InferenceErrorFallsBack ==
    (Answered /\ ValidRequest /\ model # None /\ InferenceRaised) =>
        /\ response.kind = "result"
        /\ response.status = 200
        /\ response.model_used = KeywordFallbackUsed
        /\ trace.heuristic
        /\ response = KeywordFallback(CombinedText)

C1_Witness ==
    /\ Answered
    /\ ValidRequest
    /\ model # None
    /\ trace.classifier.raised = "predict_proba"
    /\ response.kind = "result"
    /\ response.model_used = KeywordFallbackUsed

C3_InvalidInputExactlyWhenEmpty ==
    Answered =>
        /\ response.kind = "error" <=> ~ValidRequest
        /\ response.kind = "error" =>
               /\ response.status = 400
               /\ ~trace.normalizer
               /\ trace.classifier = NotCalled
               /\ ~trace.heuristic
        /\ ValidRequest => response.kind = "result"

\* rejected: both keys are there and both are empty strings
C3_Witness ==
    /\ Answered
    /\ data.keys = {"subject", "body"}
    /\ response.kind = "error"

\* C4: every AnalysisResult has a non-empty warning_signs.
C4_WarningSignsNonEmpty == IsResult => Len(response.warning_signs) >= 1

\* the classifier path with no rule matching: the placeholder alone
C4_Witness ==
    OnClassifierPath /\ response.warning_signs = <<MsgPlaceholder>>

(***************************************************************************)
(* The seven rules as the design states them, on the raw combined text.    *)
(***************************************************************************)
\* "click", whitespace, then "here" or "link", whatever the case
ClickRequest(s) ==
    \E i \in 1..Len(s), j \in 1..Len(s) :
        /\ MatchesNoCaseAt(s, i, s_click)
        /\ i + Len(s_click) < j
        /\ \A k \in (i + Len(s_click))..(j - 1) : IsSpace(s[k])
        /\ MatchesNoCaseAt(s, j, s_here) \/ MatchesNoCaseAt(s, j, s_link)

DesignRule(k, s) ==
    CASE k = 1 -> \/ MatchesNoCase(s, s_verify) \/ MatchesNoCase(s, s_confirm)
                  \/ Contains(s, s_ar_confirmation) \/ Contains(s, s_ar_update)
      [] k = 2 -> \/ MatchesNoCase(s, s_urgent)
                  \/ MatchesNoCase(s, s_immediately)
                  \/ Contains(s, s_ar_urgent) \/ Contains(s, s_ar_immediate)
      [] k = 3 -> ClickRequest(s) \/ Contains(s, s_ar_click_here)
      [] k = 4 -> \/ MatchesNoCase(s, s_password)
                  \/ Contains(s, s_ar_password1) \/ Contains(s, s_ar_password2)
      [] k = 5 -> Contains(s, s_http_scheme) \/ Contains(s, s_https_scheme)
      [] k = 6 -> MatchesNoCase(s, s_account) \/ Contains(s, s_ar_account)
      [] k = 7 -> \/ MatchesNoCase(s, s_prize) \/ MatchesNoCase(s, s_winner)
                  \/ Contains(s, s_ar_prize)

\* verification, urgency, click-link, credential, external link, account,
\* prize
DeclarationOrder ==
    <<MsgVerification, MsgUrgency, MsgClickLink, MsgCredential,
      MsgExternalLink, MsgAccount, MsgPrize>>

\* the messages of the rules that match s, in declaration order
MatchingRuleMessages(s) ==
    LET matching == SelectSeq(<<1, 2, 3, 4, 5, 6, 7>>,
                              LAMBDA k : DesignRule(k, s))
    IN  [i \in 1..Len(matching) |-> DeclarationOrder[matching[i]]]

\* C5: on the fallback path warning_signs is exactly the one fixed
\* 'simple keyword analysis' message, whatever the text holds; the
\* Warning-Sign Extractor has not run, also when the fallback was reached
\* after a failed classifier attempt.
C5_FallbackSignsFixed ==
    OnFallbackPath =>
        /\ response.warning_signs = <<MsgKeywordAnalysis>>
        /\ ~trace.extractor

\* the fallback after a failed classifier attempt, on a text that matches
\* some rule
C5_Witness ==
    /\ OnFallbackPath
    /\ InferenceRaised
    /\ \E k \in 1..7 : DesignRule(k, CombinedText)
    /\ response.warning_signs = <<MsgKeywordAnalysis>>

\* the largest per-class probability the classifier returned
MaxProbability ==
    LET proba == trace.classifier.proba
    IN  CHOOSE x \in {proba[i] : i \in DOMAIN proba} :
            \A i \in DOMAIN proba : proba[i] <= x

\* C6: on the classifier path the band is that of the maximum per-class
\* probability p, whichever class was predicted: very-high iff p >= 0.90,
\* high iff 0.75 <= p < 0.90, medium iff 0.60 <= p < 0.75, low iff p < 0.60.
C6_ConfidenceBandThresholds ==
    OnClassifierPath =>
        LET p == 100 * MaxProbability
            band == response.confidence
        IN  /\ band = VeryHigh <=> p >= 90 * ProbDen
            /\ band = High <=> (p >= 75 * ProbDen /\ p < 90 * ProbDen)
            /\ band = Medium <=> (p >= 60 * ProbDen /\ p < 75 * ProbDen)
            /\ band = Low <=> p < 60 * ProbDen

\* a score of exactly 0.75, for a prediction of class 0
C6_Witness ==
    /\ OnClassifierPath
    /\ 100 * MaxProbability = 75 * ProbDen
    /\ trace.classifier.prediction = 0
    /\ response.confidence = High

\* how many of the 9 phrases occur in s, whatever the case of s
PhraseCount(s) ==
    Cardinality({k \in 1..Len(phishing_keywords) :
                    MatchesNoCase(s, phishing_keywords[k])})

\* C7: on the fallback path, with count the number of the 9 phrases that
\* occur in the combined text (case-insensitively, each counted once):
\* is_phishing iff count >= 2; the band is high when count >= 3, medium when
\* 1 <= count <= 2, low when count = 0, and never very-high; and a text
\* judged phishing stays so with any of the phrases appended.
C7_KeywordHeuristic ==
    OnFallbackPath =>
        LET count == PhraseCount(CombinedText)
        IN  /\ response.is_phishing <=> count >= 2
            /\ count >= 3 => response.confidence = High
            /\ count \in 1..2 => response.confidence = Medium
            /\ count = 0 => response.confidence = Low
            /\ response.confidence # VeryHigh
            /\ response.is_phishing =>
                   \A k \in 1..Len(phishing_keywords) :
                       KeywordFallback(CombinedText
                                       \o phishing_keywords[k]).is_phishing

\* three distinct phrases, no classifier loaded
C7_Witness ==
    /\ OnFallbackPath
    /\ model = None
    /\ PhraseCount(CombinedText) = 3
    /\ response.is_phishing
    /\ response.confidence = High

\* C9: on the classifier path warning_signs is the sequence of the messages
\* of exactly the rules that match the raw combined text, in declaration
\* order, each once; it is the placeholder alone iff no rule matches.
C9_WarningSignsInRuleOrder ==
    OnClassifierPath =>
        LET expected == MatchingRuleMessages(CombinedText)
        IN  /\ expected # <<>> => response.warning_signs = expected
            /\ response.warning_signs = <<MsgPlaceholder>> <=> expected = <<>>

\* three rules or more have matched
C9_Witness ==
    /\ OnClassifierPath
    /\ Len(response.warning_signs) >= 3
    /\ response.warning_signs = MatchingRuleMessages(CombinedText)

\* the reason asserts phishing
ReasonSaysPhishing == response.reason.template \in {"ml-phishing", "kw-count"}

\* the reason says no clear indicators were found
ReasonSaysNoIndicators == response.reason.template = "kw-none"

\* C10, as stated: the reason asserts phishing exactly when is_phishing is
\* true; a result with is_phishing = true never carries the band low, and a
\* result whose reason says no clear indicators were found never carries a
\* band above low.
C10_BandNeverContradictsVerdict ==
    IsResult =>
        /\ ReasonSaysPhishing <=> response.is_phishing
        /\ response.is_phishing => response.confidence # Low
        /\ ReasonSaysNoIndicators => response.confidence = Low

\* C10, amended: the reason asserts phishing exactly when is_phishing is
\* true (otherwise it is the safe text on the classifier path and the
\* no-clear-indicators text on the fallback path); on the fallback path a
\* phishing result carries medium or high, never low, and a result whose
\* reason says no clear indicators were found carries low or medium, never
\* more.
C10_ReasonFollowsVerdict ==
    IsResult =>
        /\ ReasonSaysPhishing <=> response.is_phishing
        /\ ~response.is_phishing =>
               response.reason.template =
                   IF response.model_used = MlModel THEN "ml-safe"
                   ELSE "kw-none"
        /\ (response.model_used = KeywordFallbackUsed /\ response.is_phishing)
               => response.confidence \in {Medium, High}
        /\ ReasonSaysNoIndicators => response.confidence \in {Low, Medium}

\* one phrase matched: not phishing, no clear indicators, and yet medium
C10_Witness ==
    /\ OnFallbackPath
    /\ ~response.is_phishing
    /\ ReasonSaysNoIndicators
    /\ response.confidence = Medium

\* C8: the Text Normalizer is idempotent: normalising its own result
\* returns it unchanged.
C8_NormalizerIdempotent == Len(out) = 2 => out[2] = out[1]

====
